---- MODULE Spec2Model ----
(***************************************************************************)
(* DRTP file transfer over UDP (application.py): the client (sender) and   *)
(* the server (receiver) engines and the datagram network between them.    *)
(*                                                                         *)
(* Byte strings are kept as ropes: a sequence of ranges <<lo, hi>>, each   *)
(* standing for the bytes at offsets lo .. hi-1 of the file the client     *)
(* read.  The file's content is FileByte; two ropes are compared byte for  *)
(* byte with BytesEqual.                                                   *)
(***************************************************************************)
EXTENDS Integers, Sequences, FiniteSets, TLC

\* ------------------------------------------------------------ bounds
MaxSegments == 3
MaxWindow == 3
MaxTimeouts == 3
MaxFaults == 1

\* ------------------------------------------------------------ program constants
HEADER_SIZE == 6
MAX_DATA_SIZE == 994
SYN_FLAG == 1
ACK_FLAG == 2
FIN_FLAG == 4
\* float('inf'): a discard number no 16-bit sequence number equals
Infinity == 65536

\* ------------------------------------------------------------ bytes
Min(a, b) == IF a < b THEN a ELSE b

\* content of the source file at (0-based) offset i
FileByte(i) == i % 251

RECURSIVE BLen(_)
BLen(r) == IF r = << >> THEN 0 ELSE (Head(r)[2] - Head(r)[1]) + BLen(Tail(r))

\* Python r[a:b] for 0 <= a: both ends are clamped to the length
RECURSIVE Slice(_, _, _)
Slice(r, a, b) ==
    IF r = << >> \/ a >= b THEN << >>
    ELSE LET h == Head(r)
             n == h[2] - h[1]
         IN  IF a >= n THEN Slice(Tail(r), a - n, b - n)
             ELSE << <<h[1] + a, h[1] + Min(b, n)>> >> \o Slice(Tail(r), 0, b - n)

RECURSIVE ByteAt(_, _)
ByteAt(r, j) ==
    LET h == Head(r)
        n == h[2] - h[1]
    IN  IF j < n THEN FileByte(h[1] + j) ELSE ByteAt(Tail(r), j - n)

BytesEqual(r, s) ==
    /\ BLen(r) = BLen(s)
    /\ \A j \in 0 .. (BLen(r) - 1) : ByteAt(r, j) = ByteAt(s, j)

\* the bytes of a file of the given length
FileOfLength(len) == IF len = 0 THEN << >> ELSE << <<0, len>> >>

\* ------------------------------------------------------------ packet codec
\* struct.pack('!H', v): two bytes, big-endian
Pack16(v) == << (v \div 256) % 256, v % 256 >>
Unpack16(hi, lo) == hi * 256 + lo

create_packet(seq, ack_num, flags, data) ==
    [header |-> Pack16(seq) \o Pack16(ack_num) \o Pack16(flags), data |-> data]

parse_packet(packet) ==
    [seq     |-> Unpack16(packet.header[1], packet.header[2]),
     ack_num |-> Unpack16(packet.header[3], packet.header[4]),
     flags   |-> Unpack16(packet.header[5], packet.header[6]),
     data    |-> packet.data]

RECURSIVE BitAnd(_, _)
BitAnd(a, b) ==
    IF a = 0 \/ b = 0 THEN 0
    ELSE (a % 2) * (b % 2) + 2 * BitAnd(a \div 2, b \div 2)

RECURSIVE BitOr(_, _)
BitOr(a, b) ==
    IF a = 0 THEN b
    ELSE IF b = 0 THEN a
    ELSE (IF a % 2 = 1 \/ b % 2 = 1 THEN 1 ELSE 0) + 2 * BitOr(a \div 2, b \div 2)

is_flag_set(flags, flag) == BitAnd(flags, flag) # 0

NoPacket == [seq |-> 0 - 1, ack_num |-> 0 - 1, flags |-> 0, data |-> << >>]

\* ------------------------------------------------------------ state
VARIABLES
    \* client (run_client)
    cpc, file_data, window_size, base, next_seq, window,
    \* server (run_server)
    spc, discard_arg, discard_seq, expected_seq, received, start_time, finalized,
    \* network
    netMode, toServer, toClient, timeouts, faults, strays,
    \* history
    recording, clientSent, serverSent, clientLast, serverLast,
    windowAdds, windowRemoves, discards, roundBase, rtoCount, appends

clientVars == <<cpc, file_data, window_size, base, next_seq, window>>
serverVars == <<spc, discard_arg, discard_seq, expected_seq, received,
                start_time, finalized>>
netVars == <<netMode, toServer, toClient, timeouts, faults, strays>>
histVars == <<recording, clientSent, serverSent, clientLast, serverLast,
              windowAdds, windowRemoves, discards, roundBase, rtoCount, appends>>
vars == <<clientVars, serverVars, netVars, histVars>>

\* the empty file, a file of exactly one segment, and files of 1 .. MaxSegments
\* segments whose last segment is short (12, 1006, 2000, ... bytes)
FileLengths ==
    {0, MAX_DATA_SIZE} \cup
    {n \in 0 .. (MaxSegments * MAX_DATA_SIZE) : n % MAX_DATA_SIZE = 2000 % MAX_DATA_SIZE}

\* "ideal": every datagram is delivered, in order, well within the timeout
\* "faulty": datagrams may be late, reordered, lost or duplicated; each such
\*           event counts as one fault, and a run has at most MaxFaults of them
NetModes == {"ideal", "faulty"}

NoClientEvent ==
    [kind |-> "none", base |-> 1, next_seq |-> 1, window |-> {},
     round_base |-> 1, rcvd |-> NoPacket, sent |-> << >>]

NoServerEvent ==
    [kind |-> "none", expected_seq |-> 1, discard_seq |-> Infinity,
     received |-> << >>, rcvd |-> NoPacket, sent |-> << >>]

total_packets == (BLen(file_data) + MAX_DATA_SIZE - 1) \div MAX_DATA_SIZE

\* everything but the choice of what the history variables record
InitState ==
    /\ cpc = "idle"
    /\ file_data \in {FileOfLength(n) : n \in FileLengths}
    /\ window_size \in 0 .. MaxWindow
    /\ base = 1
    /\ next_seq = 1
    /\ window = {}
    /\ spc = "listening"
    /\ discard_arg \in {Infinity} \cup (1 .. MaxSegments)
    /\ discard_seq = discard_arg
    /\ expected_seq = 1
    /\ received = << >>
    /\ start_time = "None"
    /\ finalized = "no"
    /\ netMode \in NetModes
    /\ toServer = << >>
    /\ toClient = << >>
    /\ timeouts = 0
    /\ faults = 0
    /\ strays = 0
    /\ clientSent = << >>
    /\ serverSent = << >>
    /\ clientLast = NoClientEvent
    /\ serverLast = NoServerEvent
    /\ windowAdds = << >>
    /\ windowRemoves = << >>
    /\ discards = 0
    /\ roundBase = 1
    /\ rtoCount = 0
    /\ appends = 0

Init == InitState /\ recording = TRUE

\* the logs and counters of the history grow only where they are recorded
Rec(log, items) == IF recording THEN log \o items ELSE log

Tally(n, k) == IF recording THEN n + k ELSE n

\* ------------------------------------------------------------ network
\* the positions of a channel a receive can return: the oldest datagram,
\* or any of them where the network reorders
Deliverable(ch) ==
    IF netMode = "faulty" /\ faults < MaxFaults
    THEN 1 .. Len(ch)
    ELSE {i \in {1} : Len(ch) >= 1}

\* the datagram at position i has been received: overtaking is a fault
Delivered(i) == faults' = IF i = 1 THEN faults ELSE faults + 1

RemoveAt(ch, i) == SubSeq(ch, 1, i - 1) \o SubSeq(ch, i + 1, Len(ch))

\* nothing is on its way to either engine
Quiescent == toClient = << >> /\ (toServer = << >> \/ spc # "listening")

\* sock.sendto by the client: a datagram for a port whose process has exited
\* is dropped on arrival
SendToServer(pkts) == IF spc = "listening" THEN toServer \o pkts ELSE toServer

\* a receive may time out when nothing is on its way; a timeout that beats a
\* datagram still on its way (a late datagram) counts as a network fault
TimeoutPossible ==
    /\ recording => timeouts < MaxTimeouts
    /\ Quiescent \/ (netMode = "faulty" /\ faults < MaxFaults)

TimedOut ==
    /\ timeouts' = Tally(timeouts, 1)
    /\ faults' = IF Quiescent THEN faults ELSE faults + 1

\* ------------------------------------------------------------ server
ServerState ==
    [expected_seq |-> expected_seq, discard_seq |-> discard_seq,
     received |-> received, sent |-> << >>, stop |-> FALSE, kind |-> "none"]

\* handle_data, re-acknowledging and delivering a datagram that is ahead of
\* expected_seq
handle_data_accept_ahead(p, st) ==
    IF p.seq = st.discard_seq
    THEN [st EXCEPT !.discard_seq = Infinity, !.kind = "discard"]
    ELSE IF p.seq >= st.expected_seq
         THEN [st EXCEPT !.received = @ \o p.data,
                         !.sent = << create_packet(0, p.seq, ACK_FLAG, << >>) >>,
                         !.expected_seq = p.seq + 1,
                         !.kind = "accept"]
         ELSE [st EXCEPT !.kind = "out_of_order"]

\* handle_data without the fault-injection hook
handle_data_no_discard(p, st) ==
    IF p.seq = st.expected_seq
    THEN [st EXCEPT !.received = @ \o p.data,
                    !.sent = << create_packet(0, p.seq, ACK_FLAG, << >>) >>,
                    !.expected_seq = @ + 1,
                    !.kind = "accept"]
    ELSE [st EXCEPT !.kind = "out_of_order"]

\* handle_data, forgetting expected_seq += 1
handle_data_no_increment(p, st) ==
    IF p.seq = st.discard_seq
    THEN [st EXCEPT !.discard_seq = Infinity, !.kind = "discard"]
    ELSE IF p.seq = st.expected_seq
         THEN [st EXCEPT !.received = @ \o p.data,
                         !.sent = << create_packet(0, p.seq, ACK_FLAG, << >>) >>,
                         !.kind = "accept"]
         ELSE [st EXCEPT !.kind = "out_of_order"]

\* handle_data, never disarming the discard hook
handle_data_keep_discard(p, st) ==
    IF p.seq = st.discard_seq
    THEN [st EXCEPT !.kind = "discard"]
    ELSE IF p.seq = st.expected_seq
         THEN [st EXCEPT !.received = @ \o p.data,
                         !.sent = << create_packet(0, p.seq, ACK_FLAG, << >>) >>,
                         !.expected_seq = @ + 1,
                         !.kind = "accept"]
         ELSE [st EXCEPT !.kind = "out_of_order"]

\* an ordinary data datagram
handle_data(p, st) ==
    IF p.seq = st.discard_seq
    THEN [st EXCEPT !.discard_seq = Infinity, !.kind = "discard"]
    ELSE IF p.seq = st.expected_seq
         THEN [st EXCEPT !.received = @ \o p.data,
                         !.sent = << create_packet(0, p.seq, ACK_FLAG, << >>) >>,
                         !.expected_seq = @ + 1,
                         !.kind = "accept"]
         ELSE [st EXCEPT !.kind = "out_of_order"]

\* one pass of the receive loop over a parsed datagram
handle_datagram(p, st) ==
    IF is_flag_set(p.flags, SYN_FLAG)
    THEN [st EXCEPT !.sent = << create_packet(0, 0, BitOr(SYN_FLAG, ACK_FLAG), << >>) >>,
                    !.kind = "syn"]
    ELSE IF is_flag_set(p.flags, ACK_FLAG)
    THEN [st EXCEPT !.kind = "ack"]
    ELSE IF is_flag_set(p.flags, FIN_FLAG)
    THEN [st EXCEPT !.sent = << create_packet(0, 0, BitOr(FIN_FLAG, ACK_FLAG), << >>) >>,
                    !.stop = TRUE,
                    !.kind = "fin"]
    ELSE handle_data(p, st)

\* struct.unpack('!HHH', packet[:6]) needs six bytes
well_formed(packet) == Len(packet.header) >= HEADER_SIZE

\* the finally block: the throughput is computed from start_time, reported, and
\* received_file is written; time.time() - None raises before any of it
finalize(st) == IF st = "None" THEN "error" ELSE "done"

ServerRecv(i) ==
    /\ spc = "listening"
    /\ i \in Deliverable(toServer)
    /\ IF well_formed(toServer[i])
       THEN LET p == parse_packet(toServer[i])
                st == handle_datagram(p, ServerState)
            IN  /\ expected_seq' = st.expected_seq
                /\ discard_seq' = st.discard_seq
                /\ received' = st.received
                /\ start_time' = "set"
                /\ spc' = IF st.stop THEN "stopped" ELSE "listening"
                /\ finalized' = IF st.stop THEN finalize("set") ELSE finalized
                /\ toClient' = toClient \o st.sent
                /\ serverSent' = Rec(serverSent, st.sent)
                /\ discards' = IF st.kind = "discard" THEN discards + 1 ELSE discards
                /\ appends' = IF st.kind = "accept" THEN appends + 1 ELSE appends
                /\ serverLast' = [kind |-> st.kind, expected_seq |-> expected_seq,
                                  discard_seq |-> discard_seq, received |-> received,
                                  rcvd |-> p, sent |-> st.sent]
       ELSE \* parse_packet raises struct.error, which nothing catches: the
            \* loop is left through the finally block
            /\ spc' = "crashed"
            /\ finalized' = finalize(start_time)
            /\ serverLast' = [kind |-> "malformed", expected_seq |-> expected_seq,
                              discard_seq |-> discard_seq, received |-> received,
                              rcvd |-> NoPacket, sent |-> << >>]
            /\ UNCHANGED <<expected_seq, discard_seq, received, start_time,
                           toClient, serverSent, discards, appends>>
    /\ toServer' = RemoveAt(toServer, i)
    /\ Delivered(i)
    /\ UNCHANGED <<clientVars, discard_arg, netMode, strays, recording, timeouts,
                   clientSent, clientLast, windowAdds, windowRemoves, roundBase,
                   rtoCount>>

\* KeyboardInterrupt while the server is in its receive loop
ServerInterrupt ==
    /\ spc = "listening"
    /\ spc' = "interrupted"
    /\ finalized' = finalize(start_time)
    /\ serverLast' = [kind |-> "interrupt", expected_seq |-> expected_seq,
                      discard_seq |-> discard_seq, received |-> received,
                      rcvd |-> NoPacket, sent |-> << >>]
    /\ UNCHANGED <<clientVars, discard_arg, discard_seq, expected_seq, received,
                   start_time, netVars, recording, clientSent, serverSent,
                   clientLast, windowAdds, windowRemoves, discards, roundBase,
                   rtoCount, appends>>

\* ------------------------------------------------------------ client
Chunk(fd, seq) == Slice(fd, (seq - 1) * MAX_DATA_SIZE, seq * MAX_DATA_SIZE)

total_of(fd) == (BLen(fd) + MAX_DATA_SIZE - 1) \div MAX_DATA_SIZE

\* send_window without the window.add(next_seq) of the first pass (line 261)
RECURSIVE send_window_no_first_add(_, _, _, _)
send_window_no_first_add(st, b, ws, fd) ==
    IF st.next_seq <= b + ws /\ st.next_seq <= total_of(fd)
    THEN LET s1 == IF st.next_seq - 1 < 1
                   THEN [st EXCEPT !.next_seq = @ + 1]
                   ELSE st
             data == Slice(fd, (s1.next_seq - 1) * MAX_DATA_SIZE,
                               s1.next_seq * MAX_DATA_SIZE)
             packet == create_packet(s1.next_seq - 1, 0, 0, data)
         IN  send_window_no_first_add([next_seq |-> s1.next_seq + 1,
                          window |-> s1.window \cup {s1.next_seq},
                          sent |-> Append(s1.sent, packet),
                          adds |-> Append(s1.adds, s1.next_seq)], b, ws, fd)
    ELSE st

\* st = [next_seq, window, sent, adds]
RECURSIVE send_window(_, _, _, _)
send_window(st, b, ws, fd) ==
    IF st.next_seq <= b + ws /\ st.next_seq <= total_of(fd)
    THEN LET s1 == IF st.next_seq - 1 < 1
                   THEN [st EXCEPT !.window = @ \cup {st.next_seq},
                                   !.adds = Append(@, st.next_seq),
                                   !.next_seq = @ + 1]
                   ELSE st
             data == Slice(fd, (s1.next_seq - 1) * MAX_DATA_SIZE,
                               s1.next_seq * MAX_DATA_SIZE)
             packet == create_packet(s1.next_seq - 1, 0, 0, data)
         IN  send_window([next_seq |-> s1.next_seq + 1,
                          window |-> s1.window \cup {s1.next_seq},
                          sent |-> Append(s1.sent, packet),
                          adds |-> Append(s1.adds, s1.next_seq)], b, ws, fd)
    ELSE st

\* for seq in range(base, next_seq-1)
retransmit_packets(b, ns, fd) ==
    [k \in 1 .. (IF ns - 1 > b THEN ns - 1 - b ELSE 0) |->
        create_packet(b + k - 1, 0, 0, Chunk(fd, b + k - 1))]

\* ack_slide, stopping one short: while base < ack_num
RECURSIVE ack_slide_short(_, _)
ack_slide_short(st, ack_num) ==
    IF st.base < ack_num
    THEN IF st.base \in st.window
         THEN ack_slide_short([st EXCEPT !.window = @ \ {st.base},
                                         !.removes = Append(@, st.base),
                                         !.base = @ + 1], ack_num)
         ELSE [st EXCEPT !.crashed = TRUE]
    ELSE st

\* while base <= ack_num: window.remove(base); base += 1
\* st = [base, window, removes, crashed]; set.remove of an absent element raises
RECURSIVE ack_slide(_, _)
ack_slide(st, ack_num) ==
    IF st.base <= ack_num
    THEN IF st.base \in st.window
         THEN ack_slide([st EXCEPT !.window = @ \ {st.base},
                                   !.removes = Append(@, st.base),
                                   !.base = @ + 1], ack_num)
         ELSE [st EXCEPT !.crashed = TRUE]
    ELSE st

ClientEvent(kind, p, sent) ==
    [kind |-> kind, base |-> base, next_seq |-> next_seq, window |-> window,
     round_base |-> roundBase, rcvd |-> p, sent |-> sent]

ClientSendSyn ==
    /\ cpc = "idle"
    /\ LET sent == << create_packet(0, 0, SYN_FLAG, << >>) >>
       IN  /\ toServer' = SendToServer(sent)
           /\ clientSent' = Rec(clientSent, sent)
           /\ clientLast' = ClientEvent("syn", NoPacket, sent)
    /\ cpc' = "handshake"
    /\ UNCHANGED <<file_data, window_size, base, next_seq, window, serverVars,
                   netMode, strays, recording, toClient, timeouts, faults, serverSent, serverLast,
                   windowAdds, windowRemoves, discards, roundBase, rtoCount, appends>>

\* ClientHandshakeReply, going on to the transfer without sending the ACK
ClientHandshakeReply_no_ack(i) ==
    /\ cpc = "handshake"
    /\ i \in Deliverable(toClient)
    /\ clientLast' = ClientEvent("handshake", parse_packet(toClient[i]), << >>)
    /\ toClient' = RemoveAt(toClient, i)
    /\ Delivered(i)
    /\ cpc' = "loop"
    /\ UNCHANGED <<file_data, window_size, base, next_seq, window, serverVars,
                   netMode, strays, recording, toServer, timeouts, clientSent,
                   serverSent, serverLast, windowAdds, windowRemoves, discards,
                   roundBase, rtoCount, appends>>

ClientHandshakeReply(i) ==
    /\ cpc = "handshake"
    /\ i \in Deliverable(toClient)
    /\ LET p == parse_packet(toClient[i])
           sent == IF is_flag_set(p.flags, BitOr(SYN_FLAG, ACK_FLAG))
                   THEN << create_packet(0, 0, ACK_FLAG, << >>) >>
                   ELSE << >>
       IN  /\ toServer' = SendToServer(sent)
           /\ clientSent' = Rec(clientSent, sent)
           /\ clientLast' = ClientEvent("handshake", p, sent)
    /\ toClient' = RemoveAt(toClient, i)
    /\ Delivered(i)
    /\ cpc' = "loop"
    /\ UNCHANGED <<file_data, window_size, base, next_seq, window, serverVars,
                   netMode, strays, recording, timeouts, serverSent, serverLast,
                   windowAdds, windowRemoves, discards, roundBase, rtoCount, appends>>

\* ClientHandshakeTimeout without the exit(): falls through to the transfer
ClientHandshakeTimeout_no_exit ==
    /\ cpc = "handshake"
    /\ TimeoutPossible
    /\ cpc' = "loop"
    /\ TimedOut
    /\ clientLast' = ClientEvent("handshake_timeout", NoPacket, << >>)
    /\ UNCHANGED <<file_data, window_size, base, next_seq, window, serverVars,
                   netMode, strays, recording, toServer, toClient, clientSent, serverSent,
                   serverLast, windowAdds, windowRemoves, discards, roundBase, rtoCount, appends>>

ClientHandshakeTimeout ==
    /\ cpc = "handshake"
    /\ TimeoutPossible
    /\ cpc' = "failed"
    /\ TimedOut
    /\ clientLast' = ClientEvent("handshake_timeout", NoPacket, << >>)
    /\ UNCHANGED <<file_data, window_size, base, next_seq, window, serverVars,
                   netMode, strays, recording, toServer, toClient, clientSent, serverSent,
                   serverLast, windowAdds, windowRemoves, discards, roundBase, rtoCount, appends>>

\* while base < total_packets: send_window(), then listen
ClientRound ==
    /\ cpc = "loop"
    /\ base < total_packets
    /\ LET st == send_window([next_seq |-> next_seq, window |-> window,
                              sent |-> << >>, adds |-> << >>],
                             base, window_size, file_data)
       IN  /\ next_seq' = st.next_seq
           /\ window' = st.window
           /\ toServer' = SendToServer(st.sent)
           /\ clientSent' = Rec(clientSent, st.sent)
           /\ windowAdds' = Rec(windowAdds, st.adds)
           /\ clientLast' = ClientEvent("round", NoPacket, st.sent)
    /\ cpc' = "wait"
    /\ roundBase' = base
    /\ UNCHANGED <<file_data, window_size, base, serverVars, netMode, strays, recording, toClient,
                   timeouts, faults, serverSent, serverLast, windowRemoves, discards, rtoCount, appends>>

\* a datagram arrives inside the listening interval
ClientRecvAck(i) ==
    /\ cpc = "wait"
    /\ i \in Deliverable(toClient)
    /\ LET p == parse_packet(toClient[i])
           accepted == is_flag_set(p.flags, ACK_FLAG) /\ p.ack_num >= base
           sl == IF accepted
                 THEN ack_slide([base |-> base, window |-> window,
                                 removes |-> << >>, crashed |-> FALSE], p.ack_num)
                 ELSE [base |-> base, window |-> window,
                       removes |-> << >>, crashed |-> FALSE]
           st == IF accepted /\ ~sl.crashed
                 THEN send_window([next_seq |-> next_seq, window |-> sl.window,
                                   sent |-> << >>, adds |-> << >>],
                                  sl.base, window_size, file_data)
                 ELSE [next_seq |-> next_seq, window |-> sl.window,
                       sent |-> << >>, adds |-> << >>]
       IN  /\ base' = sl.base
           /\ next_seq' = st.next_seq
           /\ window' = st.window
           /\ cpc' = IF sl.crashed THEN "crashed" ELSE "wait"
           /\ toServer' = SendToServer(st.sent)
           /\ clientSent' = Rec(clientSent, st.sent)
           /\ windowAdds' = Rec(windowAdds, st.adds)
           /\ windowRemoves' = Rec(windowRemoves, sl.removes)
           /\ clientLast' = ClientEvent(IF accepted THEN "ack" ELSE "ignored", p, st.sent)
    /\ toClient' = RemoveAt(toClient, i)
    /\ Delivered(i)
    /\ UNCHANGED <<file_data, window_size, serverVars, netMode, strays, recording, timeouts,
                   serverSent, serverLast, discards, roundBase, rtoCount, appends>>

\* the listening interval ends (receive timeout, or the interval has elapsed):
\* retransmit_packets(), then back to the head of the transfer loop
ClientWaitExpires ==
    /\ cpc = "wait"
    /\ TimeoutPossible
    /\ LET sent == retransmit_packets(base, next_seq, file_data)
       IN  /\ toServer' = SendToServer(sent)
           /\ clientSent' = Rec(clientSent, sent)
           /\ clientLast' = ClientEvent("rto", NoPacket, sent)
    /\ TimedOut
    /\ rtoCount' = IF base < total_packets THEN Tally(rtoCount, 1) ELSE rtoCount
    /\ cpc' = "loop"
    /\ UNCHANGED <<file_data, window_size, base, next_seq, window, serverVars,
                   netMode, strays, recording, toClient, serverSent, serverLast,
                   windowAdds, windowRemoves, discards, roundBase, appends>>

\* the transfer loop is left: the first FIN
ClientFin ==
    /\ cpc = "loop"
    /\ ~(base < total_packets)
    /\ LET sent == << create_packet(0, 0, FIN_FLAG, << >>) >>
       IN  /\ toServer' = SendToServer(sent)
           /\ clientSent' = Rec(clientSent, sent)
           /\ clientLast' = ClientEvent("fin", NoPacket, sent)
    /\ cpc' = "teardown"
    /\ UNCHANGED <<file_data, window_size, base, next_seq, window, serverVars,
                   netMode, strays, recording, toClient, timeouts, faults, serverSent, serverLast,
                   windowAdds, windowRemoves, discards, roundBase, rtoCount, appends>>

ClientTeardownRecv(i) ==
    /\ cpc = "teardown"
    /\ i \in Deliverable(toClient)
    /\ LET p == parse_packet(toClient[i])
       IN  /\ cpc' = IF is_flag_set(p.flags, BitOr(FIN_FLAG, ACK_FLAG))
                     THEN "closed" ELSE "teardown"
           /\ clientLast' = ClientEvent("teardown", p, << >>)
    /\ toClient' = RemoveAt(toClient, i)
    /\ Delivered(i)
    /\ UNCHANGED <<file_data, window_size, base, next_seq, window, serverVars,
                   netMode, strays, recording, toServer, timeouts, clientSent, serverSent,
                   serverLast, windowAdds, windowRemoves, discards, roundBase, rtoCount, appends>>

ClientTeardownTimeout ==
    /\ cpc = "teardown"
    /\ TimeoutPossible
    /\ LET sent == << create_packet(0, 0, FIN_FLAG, << >>) >>
       IN  /\ toServer' = SendToServer(sent)
           /\ clientSent' = Rec(clientSent, sent)
           /\ clientLast' = ClientEvent("fin_timeout", NoPacket, sent)
    /\ TimedOut
    /\ UNCHANGED <<cpc, file_data, window_size, base, next_seq, window, serverVars,
                   netMode, strays, recording, toClient, serverSent, serverLast,
                   windowAdds, windowRemoves, discards, roundBase, rtoCount, appends>>

\* ------------------------------------------------------------ network faults
Lose ==
    /\ netMode = "faulty"
    /\ faults < MaxFaults
    /\ \/ \E i \in 1 .. Len(toServer) :
             toServer' = RemoveAt(toServer, i) /\ UNCHANGED toClient
       \/ \E i \in 1 .. Len(toClient) :
             toClient' = RemoveAt(toClient, i) /\ UNCHANGED toServer
    /\ faults' = faults + 1
    /\ UNCHANGED <<clientVars, serverVars, netMode, strays, timeouts, histVars>>

Duplicate ==
    /\ netMode = "faulty"
    /\ faults < MaxFaults
    /\ \/ \E i \in 1 .. Len(toServer) :
             toServer' = Append(toServer, toServer[i]) /\ UNCHANGED toClient
       \/ \E i \in 1 .. Len(toClient) :
             toClient' = Append(toClient, toClient[i]) /\ UNCHANGED toServer
    /\ faults' = faults + 1
    /\ UNCHANGED <<clientVars, serverVars, netMode, strays, timeouts, histVars>>

\* a datagram of fewer than six bytes, not sent by the client, reaches the
\* server's port: one more fault of the network
StrayHeaders == { <<0, 1, 0, 0, 0>> }

Stray ==
    /\ netMode = "faulty"
    /\ faults < MaxFaults
    /\ \E h \in StrayHeaders :
          toServer' = Append(toServer, [header |-> h, data |-> << >>])
    /\ faults' = faults + 1
    /\ strays' = strays + 1
    /\ UNCHANGED <<clientVars, serverVars, netMode, toClient, timeouts, histVars>>

Next ==
    \/ ClientSendSyn
    \/ \E i \in 1 .. Len(toClient) : ClientHandshakeReply(i)
    \/ ClientHandshakeTimeout
    \/ ClientRound
    \/ \E i \in 1 .. Len(toClient) : ClientRecvAck(i)
    \/ ClientWaitExpires
    \/ ClientFin
    \/ \E i \in 1 .. Len(toClient) : ClientTeardownRecv(i)
    \/ ClientTeardownTimeout
    \/ \E i \in 1 .. Len(toServer) : ServerRecv(i)
    \/ ServerInterrupt
    \/ Stray
    \/ Lose
    \/ Duplicate

Spec == Init /\ [][Next]_vars

\* The two engines left to run, over a network whose faults are finitely many
\* (MaxFaults), with a positive window and no history kept.  Each engine is a
\* loop around a receive with a timeout: it takes its next step whenever it
\* has one.
InitLive == InitState /\ recording = FALSE /\ window_size >= 1

ClientStep ==
    \/ ClientSendSyn
    \/ \E i \in 1 .. Len(toClient) : ClientHandshakeReply(i)
    \/ ClientHandshakeTimeout
    \/ ClientRound
    \/ \E i \in 1 .. Len(toClient) : ClientRecvAck(i)
    \/ ClientWaitExpires
    \/ ClientFin
    \/ \E i \in 1 .. Len(toClient) : ClientTeardownRecv(i)
    \/ ClientTeardownTimeout

ServerStep == \E i \in 1 .. Len(toServer) : ServerRecv(i)

LiveNext ==
    \/ ClientStep
    \/ ServerStep
    \/ Lose
    \/ Duplicate

LiveSpec ==
    InitLive /\ [][LiveNext]_vars /\ WF_vars(ClientStep) /\ WF_vars(ServerStep)

\* The two engines left to run on any payload of at least one segment, with
\* any window size the argument parser lets through (window_type rejects
\* negative values only) and no history kept; the same steps and the same
\* scheduling as LiveSpec.
InitTerm == InitState /\ recording = FALSE /\ BLen(file_data) > 0

TermSpec ==
    InitTerm /\ [][LiveNext]_vars /\ WF_vars(ClientStep) /\ WF_vars(ServerStep)

\* ============================================================ claims
IsData(p) ==
    /\ ~is_flag_set(p.flags, SYN_FLAG)
    /\ ~is_flag_set(p.flags, ACK_FLAG)
    /\ ~is_flag_set(p.flags, FIN_FLAG)

\* the last datagram the server handled was an ordinary data datagram
ServerHandledData ==
    /\ serverLast.kind \in {"discard", "accept", "out_of_order"}
    /\ IsData(serverLast.rcvd)

ServerAccepted ==
    /\ expected_seq = serverLast.expected_seq + 1
    /\ received = serverLast.received \o serverLast.rcvd.data
    /\ serverLast.sent = << create_packet(0, serverLast.rcvd.seq, ACK_FLAG, << >>) >>

ServerDropped ==
    /\ expected_seq = serverLast.expected_seq
    /\ received = serverLast.received
    /\ serverLast.sent = << >>

SeqsOf(pkts) == [i \in 1 .. Len(pkts) |-> parse_packet(pkts[i]).seq]

Count(s, x) == Cardinality({i \in 1 .. Len(s) : s[i] = x})

\* the sequence numbers the client has transmitted in data packets
Transmitted ==
    {parse_packet(clientSent[i]).seq :
        i \in {j \in 1 .. Len(clientSent) : IsData(parse_packet(clientSent[j]))}}

\* C1: with fault injection disabled and a network that delivers every
\* datagram, once the receiver has stopped on FIN it has accepted exactly
\* total_segments chunks and its reassembled bytes equal the sender's payload
\* byte for byte.
C1_ReassembledEqualsPayload ==
    (netMode = "ideal" /\ discard_arg = Infinity /\ spc = "stopped")
        => /\ expected_seq - 1 = total_packets
           /\ BytesEqual(received, file_data)

\* C2: every data packet the sender emits with sequence number k, in a send
\* round or in a retransmission, has flags = 0, ack = 0 and carries chunk k of
\* the payload, the bytes [(k-1)*994, k*994).
C2_PacketCarriesItsChunk ==
    \A i \in 1 .. Len(clientSent) :
        LET p == parse_packet(clientSent[i])
        IN  IsData(p) =>
                /\ p.flags = 0
                /\ p.ack_num = 0
                /\ BytesEqual(p.data, Chunk(file_data, p.seq))

\* C3: in every sender state base <= next_seq and next_seq - base <=
\* window_capacity.
C3_WindowBound ==
    /\ base <= next_seq
    /\ next_seq - base <= window_size

\* C4 as stated: a data datagram handled by the receiver is accepted (payload
\* appended, ACK sent, expected_seq incremented) if and only if its sequence
\* equals expected_seq; any other sequence leaves expected_seq, reassembled
\* and discard_once unchanged and produces no ACK.
C4_AcceptedIffExpected ==
    ServerHandledData =>
        IF serverLast.rcvd.seq = serverLast.expected_seq
        THEN ServerAccepted
        ELSE ServerDropped /\ discard_seq = serverLast.discard_seq

\* C4 amended: the same, for a data datagram whose sequence differs from the
\* discard_once value in force when it arrives.
C4_AcceptedIffExpectedUnlessDiscarded ==
    (ServerHandledData /\ serverLast.rcvd.seq # serverLast.discard_seq) =>
        IF serverLast.rcvd.seq = serverLast.expected_seq
        THEN ServerAccepted /\ discard_seq = serverLast.discard_seq
        ELSE ServerDropped /\ discard_seq = serverLast.discard_seq

\* an out-of-order data datagram, not the one to discard, has been handled
C4_Witness ==
    /\ ServerHandledData
    /\ serverLast.rcvd.seq # serverLast.discard_seq
    /\ serverLast.rcvd.seq # serverLast.expected_seq

\* C5: in the data-transfer phase a received ACK with ack_number >= base makes
\* base = ack_number + 1 and removes every sequence of the old [base,
\* ack_number] from in_flight; an ACK with ack_number < base changes neither
\* base, next_seq nor in_flight and sends nothing.
C5_CumulativeAckSlide ==
    (clientLast.kind \in {"ack", "ignored"}
        /\ is_flag_set(clientLast.rcvd.flags, ACK_FLAG)) =>
        IF clientLast.rcvd.ack_num >= clientLast.base
        THEN /\ base = clientLast.rcvd.ack_num + 1
             /\ \A k \in clientLast.base .. clientLast.rcvd.ack_num : k \notin window
             /\ \A k \in clientLast.base .. clientLast.rcvd.ack_num :
                    k \in clientLast.window
        ELSE /\ base = clientLast.base
             /\ next_seq = clientLast.next_seq
             /\ window = clientLast.window
             /\ clientLast.sent = << >>

\* an ACK that acknowledges more than one in-flight sequence has been received
C5_Witness ==
    /\ clientLast.kind = "ack"
    /\ clientLast.rcvd.ack_num > clientLast.base
    /\ base = clientLast.rcvd.ack_num + 1

\* C6: at a retransmission-timeout event (the listening interval ends with
\* base where it was at the start of the round) every sequence number of
\* [base, next_seq) is resent exactly once, in ascending order, and nothing
\* else is resent.
C6_RetransmitWholeRange ==
    (clientLast.kind = "rto" /\ clientLast.base = clientLast.round_base) =>
        SeqsOf(clientLast.sent) =
            [k \in 1 .. (clientLast.next_seq - clientLast.base) |->
                clientLast.base + k - 1]

\* C7: when the sender sends its first FIN every sequence number of
\* [1, total_segments] has been transmitted at least once and lies below base,
\* that is, has been cumulatively acknowledged.
C7_AllSentAndAckedAtFin ==
    clientLast.kind = "fin" =>
        \A k \in 1 .. total_packets : k \in Transmitted /\ k < base

\* C8: the fault-injection hook drops at most one datagram in a connection;
\* once a data datagram with sequence discard_once = d has been handled it has
\* dropped exactly one; the copy it drops gets no ACK, no append and no
\* increment, and a later copy arriving when expected_seq = d is accepted and
\* acknowledged.
C8_DiscardExactlyOnce ==
    /\ discards <= 1
    /\ (ServerHandledData /\ serverLast.rcvd.seq = discard_arg) =>
          /\ discards = 1
          /\ discard_seq = Infinity
          /\ serverLast.discard_seq = discard_arg => ServerDropped
          /\ (serverLast.discard_seq # discard_arg
                /\ serverLast.expected_seq = discard_arg) => ServerAccepted

\* a retransmitted copy of segment d has been accepted after the drop
C8_Witness ==
    /\ ServerHandledData
    /\ serverLast.rcvd.seq = discard_arg
    /\ serverLast.discard_seq = Infinity
    /\ discards = 1
    /\ expected_seq = discard_arg + 1

\* C9: when the sender is CLOSED every sequence number of [1, total_segments]
\* has entered in_flight exactly once and left it exactly once, and in_flight
\* is empty.
C9_InFlightOnceEach ==
    cpc = "closed" =>
        /\ \A k \in 1 .. total_packets :
              Count(windowAdds, k) = 1 /\ Count(windowRemoves, k) = 1
        /\ window = {}

\* C10: a handshake timeout puts the sender in FAILED, where it stays without
\* taking another step: the SYN is all it ever sent (no second SYN, no ACK, no
\* data packet, no FIN).
C10_HandshakeTimeoutIsFatal ==
    /\ clientLast.kind = "handshake_timeout" <=> cpc = "failed"
    /\ cpc = "failed" => clientSent = << create_packet(0, 0, SYN_FLAG, << >>) >>

\* the handshake has timed out
C10_Witness == cpc = "failed" /\ clientLast.kind = "handshake_timeout"

Syn == create_packet(0, 0, SYN_FLAG, << >>)
SynAck == create_packet(0, 0, BitOr(SYN_FLAG, ACK_FLAG), << >>)
PlainAck == create_packet(0, 0, ACK_FLAG, << >>)
Fin == create_packet(0, 0, FIN_FLAG, << >>)
FinAck == create_packet(0, 0, BitOr(FIN_FLAG, ACK_FLAG), << >>)
DataAck(k) == create_packet(0, k, ACK_FLAG, << >>)

\* the headers of a log, as <<sequence, ack_number, flags>>
Headers(log) ==
    [i \in 1 .. Len(log) |->
        LET p == parse_packet(log[i]) IN <<p.seq, p.ack_num, p.flags>>]

\* C11: the sender is CLOSED only after a reply with both FIN and ACK set, so
\* whenever it is CLOSED the receiver has processed a FIN.
C11_ClosedOnlyOnFinAck ==
    cpc = "closed" =>
        /\ is_flag_set(clientLast.rcvd.flags, FIN_FLAG)
        /\ is_flag_set(clientLast.rcvd.flags, ACK_FLAG)
        /\ spc = "stopped"

\* C12: a datagram shorter than 6 bytes is discarded by the receiver: it
\* leaves expected_seq, reassembled and discard_once as they were, gets no
\* reply and leaves the receive loop running.
C12_MalformedIsDiscarded ==
    serverLast.kind = "malformed" =>
        /\ spc = "listening"
        /\ expected_seq = serverLast.expected_seq
        /\ received = serverLast.received
        /\ discard_seq = serverLast.discard_seq
        /\ serverLast.sent = << >>

\* C13: after an operator interrupt, in whatever state the receiver was, the
\* finalization has completed: throughput reported, bytes handed to the file.
C13_InterruptFinalizes == spc = "interrupted" => finalized = "done"

\* C14: a 2000-byte payload, window 3, no fault injection, loss-free network:
\* 3 segments; SYN, SYN|ACK, ACK; data packets 1, 2, 3, each answered by the
\* ACK of its number, none retransmitted; FIN, FIN|ACK.
C14_RoundTripScenario ==
    (BLen(file_data) = 2000 /\ window_size = 3 /\ discard_arg = Infinity
        /\ netMode = "ideal" /\ cpc = "closed" /\ spc = "stopped") =>
        /\ total_packets = 3
        /\ Headers(clientSent) =
              << <<0, 0, SYN_FLAG>>, <<0, 0, ACK_FLAG>>,
                 <<1, 0, 0>>, <<2, 0, 0>>, <<3, 0, 0>>, <<0, 0, FIN_FLAG>> >>
        /\ serverSent = << SynAck, DataAck(1), DataAck(2), DataAck(3), FinAck >>

C16_ResendOnlyWithoutProgress ==
    (clientLast.kind = "rto" /\ clientLast.sent # << >>) =>
        clientLast.base = clientLast.round_base

\* C17: SYN (sender), SYN|ACK (receiver), ACK (sender) precede the first data
\* packet: the receiver sends nothing before the SYN, the sender sends its
\* second packet only after the SYN|ACK, that second packet is the plain ACK
\* sent on receipt of the SYN|ACK, and data packets come after it.
C17_HandshakeBeforeData ==
    /\ serverSent # << >> => (clientSent # << >> /\ clientSent[1] = Syn)
    /\ Len(clientSent) >= 2 =>
          /\ clientSent[1] = Syn
          /\ serverSent # << >> /\ serverSent[1] = SynAck
          /\ clientSent[2] = PlainAck
    /\ clientLast.kind = "handshake" =>
          /\ clientLast.rcvd.flags = BitOr(SYN_FLAG, ACK_FLAG)
          /\ clientLast.sent = << PlainAck >>

\* a data packet has been sent
C17_Witness == Transmitted # {} /\ Len(clientSent) >= 3

\* C18: without an operator interrupt the receive loop is left only by
\* handling a datagram carrying FIN, answered by the one FIN|ACK the receiver
\* ever sends, which is the last packet it sends.
C18_StopsOnlyOnFin ==
    (spc # "listening" /\ spc # "interrupted") =>
        /\ serverLast.kind = "fin"
        /\ is_flag_set(serverLast.rcvd.flags, FIN_FLAG)
        /\ serverLast.sent = << FinAck >>
        /\ Count(serverSent, FinAck) = 1
        /\ serverSent[Len(serverSent)] = FinAck

\* the data ACKs the receiver has sent, in order
DataAcksSent ==
    SelectSeq(serverSent, LAMBDA d : parse_packet(d).flags = ACK_FLAG)

\* C20: the number of payloads appended equals expected_seq - 1 and the number
\* of data ACKs sent; these ACKs carry sequence 0 and the ack_numbers 1, 2,
\* ..., expected_seq - 1 in this order, once each; expected_seq never decreases.
C20_ReceiverCounts ==
    /\ appends = expected_seq - 1
    /\ DataAcksSent = [k \in 1 .. (expected_seq - 1) |-> DataAck(k)]
    /\ serverLast.expected_seq <= expected_seq

\* the receiver has accepted and acknowledged two segments
C20_Witness == expected_seq = 3 /\ Len(DataAcksSent) = 2 /\ appends = 2

InTransfer == cpc \in {"loop", "wait"}

\* C19: over a network that loses only finitely many datagrams, a sender in
\* the data-transfer phase eventually leaves it.
C19_TransferEnds == InTransfer ~> ~InTransfer

\* the data packets the client had sent before its latest step
SentBefore == SubSeq(clientSent, 1, Len(clientSent) - Len(clientLast.sent))

\* C21: whenever the sender accepts an ACK in the data transfer (ACK flag set,
\* ack_number >= base), every sequence number of [base, ack_number] is in
\* in_flight at that moment and ack_number is the sequence of a data packet
\* the sender had transmitted, so the removal never fails; over a network
\* that loses, reorders and duplicates.
C21_AcceptedAckIsInFlight ==
    clientLast.kind = "ack" =>
        /\ \A k \in clientLast.base .. clientLast.rcvd.ack_num :
               k \in clientLast.window
        /\ \E i \in 1 .. Len(SentBefore) :
               /\ IsData(parse_packet(SentBefore[i]))
               /\ parse_packet(SentBefore[i]).seq = clientLast.rcvd.ack_num
        /\ cpc # "crashed"

\* after a fault of the network, an ACK that covers more than one in-flight
\* sequence has been accepted
C21_Witness ==
    /\ netMode = "faulty"
    /\ faults >= 1
    /\ clientLast.kind = "ack"
    /\ clientLast.rcvd.ack_num > clientLast.base
    /\ cpc = "wait"

\* the sender has reached CLOSED and the receiver has left its receive loop
\* on a FIN
BothDone == cpc = "closed" /\ spc = "stopped"

\* C22: over a network that delivers every datagram, with or without a
\* discard_once fault, under fair scheduling of both engines and of timeouts,
\* for every payload of at least one segment and every window capacity, the
\* sender eventually reaches CLOSED and the receiver eventually stops its
\* receive loop.
C22_Terminates == (netMode = "ideal") ~> BothDone

====
